---- MODULE Spec2Model ----
(***************************************************************************)
(* EZ.Finance interest tracker (app.py): the cached loader load_data(),    *)
(* the numeric coercion of the rate columns, the group average and the     *)
(* chart / "no data" branch of one script run.                             *)
(*                                                                         *)
(* Rates are kept in tenths of a percent (2.9 is 29), so that sums and     *)
(* means are exact; a mean is the pair sum / count.                        *)
(***************************************************************************)
EXTENDS Integers, Sequences, FiniteSets, TLC

\* ------------------------------------------------------------------ bounds
MaxNow == 1250          \* the clock stops advancing past this many seconds
MaxFetchRows == 1       \* rows of a dataset the spreadsheet can return
MaxRows == 2            \* rows of a dataset handed to the aggregation alone

\* --------------------------------------------------------------- constants
TTL == 600

required_columns == <<"Bank", "Group", "Type", "1M", "3M", "6M", "12M">>

rate_cols == <<"1M", "3M", "6M", "12M">>

ColumnMismatchMsg == "Google Sheet column mismatch. Falling back to mock data."

NoDataMsg == "No bank data available to plot."

\* ------------------------------------------------------------------- cells
Num(v) == [k |-> "num", v |-> v]

Txt(s) == [k |-> "txt", s |-> s]

NaN == [k |-> "nan"]

Range(s) == {s[i] : i \in 1..Len(s)}

MkRow(bank, group, type, r1, r3, r6, r12) ==
    ("Bank" :> bank) @@ ("Group" :> group) @@ ("Type" :> type) @@
    ("1M" :> r1) @@ ("3M" :> r3) @@ ("6M" :> r6) @@ ("12M" :> r12)

DataFrame(cols, rows) == [columns |-> cols, rows |-> rows]

FallbackEmpty == DataFrame(required_columns, <<>>)

Fallback ==
    DataFrame(required_columns,
      << MkRow("Vietcombank", "Big 4", "Online", Num(29), Num(32), Num(41), Num(50)),
         MkRow("BIDV", "Big 4", "Online", Num(30), Num(33), Num(42), Num(51)),
         MkRow("Agribank", "Big 4", "Counter", Num(28), Num(30), Num(40), Num(50)),
         MkRow("Techcombank", "Private Bank", "Online", Num(35), Num(38), Num(48), Num(55)),
         MkRow("VPBank", "Private Bank", "Online", Num(36), Num(40), Num(52), Num(56)),
         MkRow("MB Bank", "Private Bank", "Online", Num(34), Num(38), Num(47), Num(54)) >>)

\* ------------------------------------------------- pd.to_numeric(coerce)
Digits == {"0", "1", "2", "3", "4", "5", "6", "7", "8", "9"}

DigitVal(c) ==
    CASE c = "0" -> 0 [] c = "1" -> 1 [] c = "2" -> 2 [] c = "3" -> 3
      [] c = "4" -> 4 [] c = "5" -> 5 [] c = "6" -> 6 [] c = "7" -> 7
      [] c = "8" -> 8 [] c = "9" -> 9

RECURSIVE IntOf(_)
IntOf(s) == IF s = <<>> THEN 0
            ELSE 10 * IntOf(SubSeq(s, 1, Len(s) - 1)) + DigitVal(s[Len(s)])

AllDigits(s) == \A i \in 1..Len(s) : s[i] \in Digits

\* A text of the shape d+ or d+.d is a number; any other text is missing.
ParseNumeric(s) ==
    IF Len(s) >= 1 /\ AllDigits(s) THEN Num(10 * IntOf(s))
    ELSE IF /\ Len(s) >= 3
            /\ s[Len(s) - 1] = "."
            /\ AllDigits(SubSeq(s, 1, Len(s) - 2))
            /\ s[Len(s)] \in Digits
         THEN Num(10 * IntOf(SubSeq(s, 1, Len(s) - 2)) + DigitVal(s[Len(s)]))
         ELSE NaN

\* fills 0 where the text is not a number
to_numeric_zero(c) ==
    CASE c.k = "num" -> c
      [] c.k = "txt" -> IF ParseNumeric(c.s) = NaN THEN Num(0) ELSE ParseNumeric(c.s)
      [] c.k = "nan" -> Num(0)

to_numeric(c) ==
    CASE c.k = "num" -> c
      [] c.k = "txt" -> ParseNumeric(c.s)
      [] c.k = "nan" -> NaN

IsRate(col) == \E i \in 1..Len(rate_cols) : rate_cols[i] = col

\* for col in rate_cols: if col in df.columns: df[col] = to_numeric(df[col])
CoerceRow(cols, row) ==
    [c \in DOMAIN row |->
        IF IsRate(c) /\ c \in Range(cols) THEN to_numeric(row[c]) ELSE row[c]]

Coerced(df) ==
    DataFrame(df.columns, [i \in 1..Len(df.rows) |-> CoerceRow(df.columns, df.rows[i])])

\* ------------------------------- groupby("Group")[rate_cols].mean(), melt
\* Group names of the model's inputs, in the sorted order groupby yields.
GroupNames == <<"Big 4", "Private Bank">>

\* looks at the columns only
IsEmptyColumns(df) == Len(df.columns) = 0

IsEmpty(df) == Len(df.rows) = 0 \/ Len(df.columns) = 0

GroupKeys(df) ==
    SelectSeq(GroupNames, LAMBDA g : \E i \in 1..Len(df.rows) : df.rows[i]["Group"] = g)

RECURSIVE SumOf(_, _, _)
SumOf(rows, g, t) ==
    IF rows = <<>> THEN 0
    ELSE LET r == Head(rows)
         IN (IF r["Group"] = g /\ r[t].k = "num" THEN r[t].v ELSE 0)
            + SumOf(Tail(rows), g, t)

RECURSIVE CountOf(_, _, _)
CountOf(rows, g, t) ==
    IF rows = <<>> THEN 0
    ELSE LET r == Head(rows)
         IN (IF r["Group"] = g /\ r[t].k = "num" THEN 1 ELSE 0)
            + CountOf(Tail(rows), g, t)

\* divides by the number of rows of the whole frame
MeanOverAllRows(df, g, t) ==
    IF CountOf(df.rows, g, t) = 0 THEN NaN
    ELSE [k |-> "avg", num |-> SumOf(df.rows, g, t), den |-> Len(df.rows)]

\* The mean skips missing cells; a group with none of them has no mean.
Mean(df, g, t) ==
    IF CountOf(df.rows, g, t) = 0 THEN NaN
    ELSE [k |-> "avg", num |-> SumOf(df.rows, g, t), den |-> CountOf(df.rows, g, t)]

\* avg_df.melt(id_vars="Group"): the terms in column order, the groups within.
Melted(df) ==
    LET keys == GroupKeys(df)
        nG == Len(keys)
    IN [i \in 1..(Len(rate_cols) * nG) |->
          LET t == rate_cols[((i - 1) \div nG) + 1]
              g == keys[((i - 1) % nG) + 1]
          IN [Group |-> g, Term |-> t, AverageRate |-> Mean(df, g, t)]]

\* ------------------------------------------------------------ load_data()
None == [k |-> "none"]

Exceptions == {"ConnectionError", "AuthError", "MalformedResponse", "ValueError"}

HasRequired(df) ==
    \A i \in 1..Len(required_columns) : required_columns[i] \in Range(df.columns)

\* also rejects a frame without rows
TryBlockRejectEmpty(r) ==
    IF r.k = "raise" THEN [k |-> "raise", err |-> r.err, msgs |-> <<>>, mismatch |-> FALSE]
    ELSE IF ~HasRequired(r.df) \/ Len(r.df.rows) = 0
         THEN [k |-> "raise", err |-> "ValueError", msgs |-> <<ColumnMismatchMsg>>,
               mismatch |-> TRUE]
         ELSE [k |-> "return", val |-> r.df, msgs |-> <<>>, mismatch |-> FALSE]

\* The try block: the read, then the column check with its st.error.
TryBlock(r) ==
    IF r.k = "raise" THEN [k |-> "raise", err |-> r.err, msgs |-> <<>>, mismatch |-> FALSE]
    ELSE IF ~HasRequired(r.df)
         THEN [k |-> "raise", err |-> "ValueError", msgs |-> <<ColumnMismatchMsg>>,
               mismatch |-> TRUE]
         ELSE [k |-> "return", val |-> r.df, msgs |-> <<>>, mismatch |-> FALSE]

\* except ConnectionError as e
CatchesConnectionOnly(err) == err = "ConnectionError"

\* except Exception as e
Catches(err) == err \in Exceptions

\* the st.warning of the handler enabled
HandlerMsgsWarning(err) == <<"Using Mock Data.">>

\* The st.warning / st.info of the handler are comments: it shows nothing.
HandlerMsgs(err) == <<>>

load_data_body(r) ==
    LET t == TryBlock(r)
    IN IF t.k = "return"
       THEN [val |-> t.val, msgs |-> t.msgs, exc |-> "none", path |-> "fetched"]
       ELSE IF Catches(t.err)
            THEN [val |-> Fallback, msgs |-> t.msgs \o HandlerMsgs(t.err), exc |-> "none",
                  path |-> IF t.mismatch THEN "mismatch" ELSE "failure"]
            ELSE [val |-> None, msgs |-> t.msgs, exc |-> t.err, path |-> "raised"]

\* ttl=60
FreshMinute(entry, t) == entry # None /\ t - entry.at < 60

\* an entry exactly TTL seconds old is still served
FreshInclusive(entry, t) == entry # None /\ t - entry.at <= TTL

\* ttl=600: an entry is served while less than TTL seconds old.
Fresh(entry, t) == entry # None /\ t - entry.at < TTL

\* the entry is the very frame the call returned
CacheAfterAssignAliased(entry, df) ==
    IF entry = None THEN entry ELSE [entry EXCEPT !.val = df]

\* st.cache_data keeps a serialized copy of the return value, so an
\* assignment into the frame a call returned does not reach the entry.
CacheAfterAssign(entry, df) == entry

\* ---------------------------------------------------------- model inputs
BoundedSeq(S, n) == UNION {[1..m -> S] : m \in 0..n}

NA == Txt(<<"n", "/", "a">>)

SheetRows ==
    { MkRow("Vietcombank", "Big 4", "Online", Num(29), Txt(<<"3", ".", "2">>), NA, Num(50)),
      MkRow("VPBank", "Private Bank", "Online", Num(36), Num(40), Num(52), NA) }

RenameCol(df, old, new) ==
    DataFrame([i \in 1..Len(df.columns) |->
                  IF df.columns[i] = old THEN new ELSE df.columns[i]],
              [i \in 1..Len(df.rows) |->
                  [c \in (DOMAIN df.rows[i] \ {old}) \cup {new} |->
                      IF c = new THEN df.rows[i][old] ELSE df.rows[i][c]]])

ValidSheets == {DataFrame(required_columns, rs) : rs \in BoundedSeq(SheetRows, MaxFetchRows)}

MismatchSheets ==
    {RenameCol(d, c, "Note") : d \in ValidSheets, c \in Range(required_columns)}

FailureKinds == {"ConnectionError", "AuthError", "MalformedResponse"}

Outcomes ==
    {[k |-> "raise", err |-> e] : e \in FailureKinds}
    \cup {[k |-> "df", df |-> d] : d \in ValidSheets \cup MismatchSheets}

Steps == {TTL \div 2 - 1, TTL \div 2, TTL \div 2 + 1}

\* ------------------------------------------------------------------ state
\* now         wall clock, in seconds
\* outerCache  the entry st.cache_data(ttl=600) keeps for load_data()
\* connCache   the entry conn.read(ttl=600) keeps for the worksheet
\* pc          position of the script run
\* df_banks    the frame the script holds
\* fetched     what conn.read gave this run's call (None: the body did not run)
\* returned    what load_data() returned to this run
\* populated   what the call that filled outerCache returned
\* path        how this run's call of load_data() ended
\* attempts    requests this run's call sent to the spreadsheet
\* notices     st.error messages shown by this run
\* chart       the bar chart of this run
\* exc         exception that left load_data()
VARIABLES now, outerCache, connCache, pc, df_banks, fetched, returned, populated,
          path, attempts, notices, chart, exc

vars == <<now, outerCache, connCache, pc, df_banks, fetched, returned, populated,
          path, attempts, notices, chart, exc>>

runVars == <<df_banks, fetched, returned, path, attempts, notices, chart, exc>>

Init ==
    /\ now = 0
    /\ outerCache = None
    /\ connCache = None
    /\ pc = "start"
    /\ df_banks = None
    /\ fetched = None
    /\ returned = None
    /\ populated = None
    /\ path = "none"
    /\ attempts = 0
    /\ notices = <<>>
    /\ chart = None
    /\ exc = "none"

\* conn.read(worksheet="BankRates", usecols=range(7), ttl=600): the
\* connection serves its own copy while it is fresh, else asks the sheet.
ConnRead(o) ==
    IF Fresh(connCache, now)
    THEN [r |-> [k |-> "df", df |-> connCache.val], cache |-> connCache, attempts |-> 0]
    ELSE [r |-> o,
          cache |-> IF o.k = "df" THEN [val |-> o.df, at |-> now] ELSE connCache,
          attempts |-> 1]

\* df_banks = load_data(), the entry is fresh: the stored value and the
\* notices recorded with it are replayed, the body does not run.
LoadDataHit ==
    /\ pc = "start"
    /\ Fresh(outerCache, now)
    /\ df_banks' = outerCache.val
    /\ fetched' = None
    /\ returned' = outerCache.val
    /\ notices' = notices \o outerCache.msgs
    /\ path' = "hit"
    /\ attempts' = 0
    /\ pc' = "loaded"
    /\ UNCHANGED <<now, outerCache, connCache, populated, chart, exc>>

\* df_banks = load_data(), no fresh entry: the body runs once and its
\* result is stored.
LoadDataMiss(o) ==
    /\ pc = "start"
    /\ ~Fresh(outerCache, now)
    /\ LET rd == ConnRead(o)
           b == load_data_body(rd.r)
       IN /\ connCache' = rd.cache
          /\ fetched' = rd.r
          /\ attempts' = rd.attempts
          /\ path' = b.path
          /\ exc' = b.exc
          /\ notices' = notices \o b.msgs
          /\ IF b.exc = "none"
             THEN /\ outerCache' = [val |-> b.val, at |-> now, msgs |-> b.msgs]
                  /\ df_banks' = b.val
                  /\ returned' = b.val
                  /\ populated' = b.val
                  /\ pc' = "loaded"
             ELSE /\ pc' = "crashed"
                  /\ UNCHANGED <<outerCache, df_banks, returned, populated>>
    /\ UNCHANGED <<now, chart>>

\* for col in rate_cols: df_banks[col] = pd.to_numeric(..., errors='coerce')
Coerce ==
    /\ pc = "loaded"
    /\ df_banks' = Coerced(df_banks)
    /\ outerCache' = CacheAfterAssign(outerCache, df_banks')
    /\ pc' = "coerced"
    /\ UNCHANGED <<now, connCache, fetched, returned, populated, path, attempts, notices,
                   chart, exc>>

\* if not df_banks.empty: group, melt, plot
Plot ==
    /\ pc = "coerced"
    /\ ~IsEmpty(df_banks)
    /\ chart' = [k |-> "bar", data |-> Melted(df_banks)]
    /\ pc' = "done"
    /\ UNCHANGED <<now, outerCache, connCache, df_banks, fetched, returned, populated,
                   path, attempts, notices, exc>>

\* else: st.error("No bank data available to plot.")
NoData ==
    /\ pc = "coerced"
    /\ IsEmpty(df_banks)
    /\ notices' = Append(notices, NoDataMsg)
    /\ pc' = "done"
    /\ UNCHANGED <<now, outerCache, connCache, df_banks, fetched, returned, populated,
                   path, attempts, chart, exc>>

\* The next page view runs the script again from the top.
Rerun ==
    /\ pc = "done"
    /\ pc' = "start"
    /\ df_banks' = None
    /\ fetched' = None
    /\ returned' = None
    /\ path' = "none"
    /\ attempts' = 0
    /\ notices' = <<>>
    /\ chart' = None
    /\ UNCHANGED <<now, outerCache, connCache, populated, exc>>

\* Wall-clock time passes between page views.
Advance(d) ==
    /\ pc = "start"
    /\ now + d <= MaxNow
    /\ now' = now + d
    /\ UNCHANGED <<outerCache, connCache, pc, populated>>
    /\ UNCHANGED runVars

Next ==
    \/ LoadDataHit
    \/ \E o \in Outcomes : LoadDataMiss(o)
    \/ Coerce
    \/ Plot
    \/ NoData
    \/ Rerun
    \/ \E d \in Steps : Advance(d)

Spec == Init /\ [][Next]_vars

\* ------------------------------------------- the presenter on any dataset
\* load_data() has just returned a dataset with the required columns; the
\* coercion, the aggregation and the chart branch follow.
AggCells(t) ==
    CASE t = "1M" -> {Num(29), Num(30), NA}
      [] t = "3M" -> {Num(32), Txt(<<"3", ".", "3">>)}
      [] t = "6M" -> {Num(41), NA}
      [] t = "12M" -> {Num(50), NA}

AggRows ==
    {MkRow("Bank", g, "Online", r1, r3, r6, r12) :
        g \in Range(GroupNames), r1 \in AggCells("1M"), r3 \in AggCells("3M"),
        r6 \in AggCells("6M"), r12 \in AggCells("12M")}

AggInputs == {DataFrame(required_columns, rs) : rs \in BoundedSeq(AggRows, MaxRows)}

InitAgg ==
    \E d \in AggInputs :
        /\ now = 0
        /\ outerCache = [val |-> d, at |-> 0, msgs |-> <<>>]
        /\ connCache = [val |-> d, at |-> 0]
        /\ pc = "loaded"
        /\ df_banks = d
        /\ fetched = [k |-> "df", df |-> d]
        /\ returned = d
        /\ populated = d
        /\ path = "fetched"
        /\ attempts = 1
        /\ notices = <<>>
        /\ chart = None
        /\ exc = "none"

NextAgg == Coerce \/ Plot \/ NoData

SpecAgg == InitAgg /\ [][NextAgg]_vars

\* ================================================================ claims
RequiredSet == {"Bank", "Group", "Type", "1M", "3M", "6M", "12M"}

SchemaMismatch(df) == \E c \in RequiredSet : c \notin Range(df.columns)

BodyRan == pc # "start" /\ fetched # None

FetchFailed == BodyRan /\ fetched.k = "raise"

FetchMismatched == BodyRan /\ fetched.k = "df" /\ SchemaMismatch(fetched.df)

FetchValid == BodyRan /\ fetched.k = "df" /\ ~SchemaMismatch(fetched.df)

LoadCall == pc = "start" /\ pc' # "start"

\* C1: whenever the fetch of a call fails or returns a frame lacking one of
\* the seven required columns, load_data() returns exactly the 6-row
\* fallback dataset and no exception leaves it.
C1_FallbackOnFailure ==
    (FetchFailed \/ FetchMismatched) =>
        /\ returned = Fallback
        /\ Len(returned.rows) = 6
        /\ exc = "none"
        /\ pc # "crashed"

C1_Witness ==
    /\ pc = "loaded"
    /\ FetchMismatched
    /\ Len(fetched.df.rows) > 0
    /\ returned = Fallback

\* C2: whenever the fetched frame has all seven required columns,
\* load_data() returns that frame, with the same number of rows, also when
\* it has no rows.
C2_FetchedReturned ==
    FetchValid =>
        /\ returned = fetched.df
        /\ Len(returned.rows) = Len(fetched.df.rows)
        /\ exc = "none"

C2_Witness ==
    /\ pc = "loaded"
    /\ FetchValid
    /\ Len(fetched.df.rows) = 0
    /\ returned.rows = <<>>

\* C3: a call of load_data() made less than 600 seconds after the cache was
\* populated returns what the populating call returned, sends no request to
\* the spreadsheet and leaves the cache as it is.
C3_CacheHit ==
    [][(LoadCall /\ outerCache # None /\ now - outerCache.at < 600) =>
          /\ returned' = populated
          /\ df_banks' = populated
          /\ attempts' = 0
          /\ fetched' = None
          /\ outerCache' = outerCache
          /\ connCache' = connCache]_vars

C3_Witness ==
    /\ pc = "loaded"
    /\ path = "hit"
    /\ now - outerCache.at = 599
    /\ returned = Fallback
    /\ attempts = 0

\* C4: the chart data computed from the fallback dataset has 8 rows, one
\* per (Group, Term) pair; the Big 4 / 12M average is 15.1 / 3 and the
\* Private Bank / 12M average is 5.5.
C4_FallbackAverages ==
    (pc = "done" /\ returned = Fallback) =>
        /\ chart # None
        /\ Len(chart.data) = 8
        /\ \A g \in {"Big 4", "Private Bank"}, t \in {"1M", "3M", "6M", "12M"} :
              Cardinality({i \in 1..Len(chart.data) :
                              chart.data[i].Group = g /\ chart.data[i].Term = t}) = 1
        /\ \A i \in 1..Len(chart.data) :
              /\ (chart.data[i].Group = "Big 4" /\ chart.data[i].Term = "12M") =>
                    chart.data[i].AverageRate = [k |-> "avg", num |-> 151, den |-> 3]
              /\ (chart.data[i].Group = "Private Bank" /\ chart.data[i].Term = "12M") =>
                    /\ chart.data[i].AverageRate.k = "avg"
                    /\ chart.data[i].AverageRate.num = 55 * chart.data[i].AverageRate.den

C4_Witness ==
    /\ pc = "done"
    /\ returned = Fallback
    /\ chart # None
    /\ FetchFailed

\* A cell of the sheet that is text other than digits and a decimal point.
NonNumeric(c) == c.k = "nan" \/ (c.k = "txt" /\ \E i \in 1..Len(c.s) : c.s[i] \notin Digits \cup {"."})

NumericIdx(g, t) ==
    {j \in 1..Len(returned.rows) :
        returned.rows[j]["Group"] = g /\ ~NonNumeric(returned.rows[j][t])}

RECURSIVE SetSum(_, _)
SetSum(S, t) ==
    IF S = {} THEN 0
    ELSE LET j == CHOOSE x \in S : TRUE
         IN df_banks.rows[j][t].v + SetSum(S \ {j}, t)

\* C5: for every dataset and every (Group, Term) pair the average is the
\* sum of the group's numeric cells of the term divided by their count; a
\* non-numeric cell becomes the missing marker and counts for nothing, and a
\* pair with no numeric cell has the missing marker as its average.
C5_MeanSkipsNonNumeric ==
    (pc = "done" /\ chart # None) =>
        /\ \A j \in 1..Len(returned.rows) : \A t \in Range(rate_cols) :
              NonNumeric(returned.rows[j][t]) <=> df_banks.rows[j][t] = NaN
        /\ \A j \in 1..Len(returned.rows) : \A t \in Range(rate_cols) :
              \E i \in 1..Len(chart.data) :
                 chart.data[i].Group = returned.rows[j]["Group"] /\ chart.data[i].Term = t
        /\ \A i \in 1..Len(chart.data) :
              LET row == chart.data[i]
                  idx == NumericIdx(row.Group, row.Term)
              IN IF idx = {} THEN row.AverageRate = NaN
                 ELSE /\ row.AverageRate.k = "avg"
                      /\ row.AverageRate.num = SetSum(idx, row.Term)
                      /\ row.AverageRate.den = Cardinality(idx)

C5_Witness ==
    /\ pc = "done"
    /\ chart # None
    /\ \E i \in 1..Len(chart.data) : chart.data[i].AverageRate = NaN
    /\ \E i \in 1..Len(chart.data) :
          /\ chart.data[i].AverageRate # NaN
          /\ chart.data[i].AverageRate.den = 1
          /\ Cardinality({j \in 1..Len(returned.rows) :
                returned.rows[j]["Group"] = chart.data[i].Group}) = 2
          /\ \E j \in 1..Len(returned.rows) :
                /\ returned.rows[j]["Group"] = chart.data[i].Group
                /\ returned.rows[j][chart.data[i].Term] = NA

\* C6: at the end of a run, a dataset without rows gave no chart and the
\* "No bank data available to plot." notice, a dataset with rows gave the
\* chart and no such notice; exactly one of the two happened.
C6_ChartOrNotice ==
    pc = "done" =>
        /\ Len(returned.rows) = 0 => (chart = None /\ NoDataMsg \in Range(notices))
        /\ Len(returned.rows) > 0 => (chart # None /\ NoDataMsg \notin Range(notices))
        /\ (chart # None) # (NoDataMsg \in Range(notices))

C6_Witness ==
    /\ pc = "done"
    /\ path = "hit"
    /\ Len(returned.rows) = 0
    /\ chart = None
    /\ NoDataMsg \in Range(notices)

\* C7 as stated: on a connection failure and on a schema mismatch alike,
\* load_data() shows no notice.
C7_SilentOnBothPaths ==
    (pc = "loaded" /\ (FetchFailed \/ FetchMismatched)) => notices = <<>>

\* C7 as amended: both failures fall back to the same dataset; a connection
\* failure shows no notice, a schema mismatch shows the column-mismatch
\* error notice.
C7_MismatchIsShown ==
    /\ (pc = "loaded" /\ FetchFailed) => (notices = <<>> /\ returned = Fallback)
    /\ (pc = "loaded" /\ FetchMismatched) =>
          (notices = <<ColumnMismatchMsg>> /\ returned = Fallback)

C7_Witness ==
    /\ pc = "loaded"
    /\ FetchMismatched
    /\ notices = <<ColumnMismatchMsg>>
    /\ returned = Fallback

\* C8 as stated: the dataset load_data() returned always has rows and the
\* "no data" notice is never shown.
C8_NeverEmpty ==
    /\ (pc # "start" /\ returned # None) => Len(returned.rows) > 0
    /\ NoDataMsg \notin Range(notices)

\* C8 as amended: the dataset has rows after a failed fetch, a schema
\* mismatch or a fetch of a valid frame with rows; a fetch of a valid frame
\* without rows is returned empty and the run ends with the notice.
C8_EmptyOnlyWhenFetchedEmpty ==
    /\ BodyRan =>
          (Len(returned.rows) = 0 <=> (FetchValid /\ Len(fetched.df.rows) = 0))
    /\ (BodyRan /\ pc = "done") =>
          (NoDataMsg \in Range(notices) <=> (FetchValid /\ Len(fetched.df.rows) = 0))

C8_Witness ==
    /\ pc = "done"
    /\ FetchValid
    /\ Len(fetched.df.rows) = 0
    /\ IsEmpty(df_banks)
    /\ NoDataMsg \in Range(notices)

Stale == outerCache = None \/ now - outerCache.at >= 600

\* C9: the cache entry changes only in a call of load_data() made when the
\* cache is empty or its entry is 600 or more seconds old; such a call
\* sends exactly one request and stores what that attempt led to (the
\* fetched frame or the fallback) with the time of the call.
C9_PopulatedOnlyWhenStale ==
    [][/\ (outerCache' # outerCache) => (LoadCall /\ Stale)
       /\ (LoadCall /\ Stale) =>
             /\ attempts' = 1
             /\ fetched' # None
             /\ outerCache' # None
             /\ outerCache'.at = now
             /\ outerCache'.val = returned'
             /\ returned' = IF fetched'.k = "df" /\ ~SchemaMismatch(fetched'.df)
                            THEN fetched'.df ELSE Fallback]_vars

C9_Witness ==
    /\ pc = "loaded"
    /\ outerCache.at = 600
    /\ connCache # None
    /\ connCache.at = 0
    /\ FetchFailed
    /\ attempts = 1
    /\ outerCache.val = Fallback

\* C10: the cache entry holds what the populating call returned, whatever
\* the script assigns into the frame it got; a cache hit after a coercion
\* still returns the original cells.
C10_CacheReadOnly ==
    /\ outerCache # None => outerCache.val = populated
    /\ (path = "hit" /\ pc # "start") => returned = populated

C10_Witness ==
    /\ pc = "coerced"
    /\ path = "hit"
    /\ df_banks # returned
    /\ outerCache.val = returned
    /\ \E j \in 1..Len(returned.rows) : returned.rows[j]["6M"] = NA

====
